---------------------------- MODULE Spec2Model ----------------------------
(***************************************************************************)
(* Helios reading front end: the tutor selection lifecycle of TextReader,  *)
(* the highlight overlay renderer and the offset mapper of                 *)
(* HighlightableText.                                                      *)
(*                                                                         *)
(* Text is a sequence of one-character strings.  " " is the whitespace     *)
(* character, "a" a letter, "x" a character rendered outside the segment   *)
(* under study.                                                            *)
(***************************************************************************)
EXTENDS Integers, Sequences, FiniteSets, TLC

VARIABLES
    \* ---- TextReader (tutor selection lifecycle) ----
    tutorFeatureEnabled,   \* VITE_ENABLE_TUTOR as read by the current render
    highlightSelection,    \* useState<HighlightSelection | null>
    selectedWord,          \* useState<{word, language, segmentId} | null>
    platformSelection,     \* window.getSelection() of the page
    requests,              \* tutor mutations built so far, in dispatch order
    currentMutation,       \* the mutation the useMutation observer follows (0: none)
    lastEvent,             \* the handler that ran last and the state it ran from
    \* ---- HighlightableText (renderer and offset mapper) ----
    content,               \* props.content
    highlights,            \* props.highlights, as the store returned them
    elements,              \* what renderContent() returned on the last render
    rendered,              \* the component has rendered with its current props
    domRange,              \* the live range over the rendered page
    selection,             \* useState<{start, end, text} | null>
    submitted,             \* payloads handed to studyApi.createHighlight, not yet answered
    deleting,              \* ids handed to studyApi.deleteHighlight, not yet answered
    \* ---- ToolsPanel ----
    activeTab,             \* useState<'morphology' | 'notes'>
    panelCollapsed,        \* useState(false): isCollapsed
    toolsCommitted,        \* the panel's last render pass was committed
    \* ---- clicks on the rendered spans of HighlightableText ----
    lastClick,             \* the last click and the handlers it reached
    \* ---- AuthProvider ----
    urlToken,              \* ?token= of window.location.search
    storedToken,           \* localStorage 'auth_token'
    user,                  \* useState<User | null>
    isLoading,             \* useState(true)
    authPhase,             \* where initAuth and logout stand
    meAnswer,              \* the last answer of /api/auth/me on this page
    validTokens,           \* the tokens the server still accepts
    location               \* the router's current path

ctlVars == <<tutorFeatureEnabled, highlightSelection, selectedWord,
             platformSelection, requests, currentMutation, lastEvent>>
htVars  == <<content, highlights, elements, rendered, domRange, selection, submitted,
             deleting>>
tpVars  == <<activeTab, panelCollapsed, toolsCommitted>>
clickVars == <<lastClick>>
authVars == <<urlToken, storedToken, user, isLoading, authPhase, meAnswer,
              validTokens, location>>
vars    == <<ctlVars, htVars, tpVars, clickVars, authVars>>

\* Everything outside the tutor controller, and outside HighlightableText
notCtlVars == <<htVars, tpVars, clickVars, authVars>>
notHtVars  == <<ctlVars, tpVars, clickVars, authVars>>
notTpVars  == <<htVars, clickVars, authVars>>

-----------------------------------------------------------------------------
(* Bounds of the model *)

MaxReq == 2         \* tutor requests dispatched in one behaviour
MaxLen == 2         \* longest segment content, in characters
MaxHl == 2          \* highlights in one segment's list
MaxStored == 1      \* highlights of the segment in the store, pending creates included

SegmentIds == {1, 2}          \* data-segment-id of the rendered segments
TextId == 7                   \* text.id of the loaded text
TextLanguage == "grc"         \* text.language of the loaded text
NoSegment == 0                \* closest('[data-segment-id]') found nothing
None == [none |-> TRUE]       \* null / undefined
Absent == "(absent)"          \* null / undefined where a string is expected

IsSpace(c) == c = " "

-----------------------------------------------------------------------------
(* String helpers of the platform *)

\* String.prototype.trim
RECURSIVE TrimLeft(_)
TrimLeft(s) == IF s # <<>> /\ IsSpace(Head(s)) THEN TrimLeft(Tail(s)) ELSE s

RECURSIVE TrimRight(_)
TrimRight(s) ==
    IF s # <<>> /\ IsSpace(s[Len(s)]) THEN TrimRight(SubSeq(s, 1, Len(s) - 1)) ELSE s

Trim(s) == TrimRight(TrimLeft(s))

\* s.replace(/\s+/g, ' '): every maximal run of whitespace becomes one space
RECURSIVE CollapseSpaces(_)
CollapseSpaces(s) ==
    IF s = <<>> THEN <<>>
    ELSE IF IsSpace(Head(s))
         THEN <<" ">> \o CollapseSpaces(TrimLeft(s))
         ELSE <<Head(s)>> \o CollapseSpaces(Tail(s))

-----------------------------------------------------------------------------
(* TextReader: state of the tutor selection lifecycle *)

NoMutation == 0

\* Texts a dragged selection can hold: whitespace only, and words with
\* whitespace around and between them
SelectionTexts == {<<" ">>, <<" ", "a", " ", " ", "b", " ">>}

\* Word tokens a click can report: punctuation only, and a word with
\* punctuation inside and after it
Words == {<<".">>, <<"a", ".", "b", ".">>}

\* Segments whose words are clicked
ClickedSegments == {1}

\* window.getSelection() with no range at all (after removeAllRanges)
NoRanges ==
    [rangeCount |-> 0, isCollapsed |-> TRUE, text |-> <<>>,
     anchorSeg |-> NoSegment, focusSeg |-> NoSegment]

\* Every selection the user can leave on the page: a caret, or a range whose
\* anchor and focus each lie in a segment or outside all of them.  A caret and
\* a range over whitespace only are rejected before their place is looked at,
\* so they are taken in the first segment.
PlatformSelections ==
    {NoRanges}
    \cup {[rangeCount |-> 1, isCollapsed |-> TRUE, text |-> <<>>,
           anchorSeg |-> 1, focusSeg |-> 1]}
    \cup {s \in [rangeCount : {1}, isCollapsed : {FALSE}, text : SelectionTexts,
                  anchorSeg : SegmentIds \cup {NoSegment},
                  focusSeg : SegmentIds \cup {NoSegment}] :
             Trim(s.text) # <<>> \/ (s.anchorSeg = 1 /\ s.focusSeg = 1)}

\* What the useMutation observer reports: the state of the mutation it
\* follows, or the default state when it follows none.
tutorStatus ==
    IF currentMutation = NoMutation THEN "idle" ELSE requests[currentMutation].state

isTutorPending == tutorStatus = "pending"

\* data and error are named by the request whose response they are
tutorSuggestion == IF tutorStatus = "success" THEN currentMutation ELSE NoMutation

tutorError == IF tutorStatus = "error" THEN currentMutation ELSE NoMutation

\* An AxiosError: a message, and a detail when the gateway's response body
\* carries one
GatewayErrors ==
    {[detail |-> Absent, message |-> "Network Error"],
     [detail |-> "tutor unavailable", message |-> "Request failed"]}

\* Faulty variant: only the error's message is shown
tutorErrorMessageOnly ==
    IF tutorError = NoMutation THEN Absent ELSE requests[tutorError].error.message

\* tutorErrorMessage: detail ?? tutorError.message
tutorErrorMessage ==
    IF tutorError = NoMutation THEN Absent
    ELSE LET e == requests[tutorError].error
         IN  IF e.detail # Absent THEN e.detail ELSE e.message

\* The lifecycle state the spec names
ControllerState ==
    IF highlightSelection = None THEN "Idle"
    ELSE CASE tutorStatus = "idle"    -> "AwaitingAction"
           [] tutorStatus = "pending" -> "Requesting"
           [] tutorStatus = "success" -> "Resolved"
           [] tutorStatus = "error"   -> "Failed"

\* {tutorFeatureEnabled && highlightSelection && <HighlightPopover .../>}
popoverShown == tutorFeatureEnabled /\ highlightSelection # None

\* Faulty variant: the "Ask Tutor" button stays enabled while a request
\* is awaited
askButtonNeverDisabled == popoverShown /\ tutorSuggestion = NoMutation

\* The "Ask Tutor" button is rendered only when no suggestion is shown, and
\* is disabled while isLoading.
askButtonEnabled == popoverShown /\ tutorSuggestion = NoMutation /\ ~isTutorPending

\* The record of a handler run: which handler, the lifecycle state it ran
\* from, whether it read window.getSelection() for a new selection, whether
\* it called clearHighlight, and whether the run before it had.
Event(name, read, clears) ==
    lastEvent' = [name |-> name, from |-> ControllerState, readSelection |-> read,
                  cleared |-> clears, afterClear |-> lastEvent.cleared]

-----------------------------------------------------------------------------
(* TextReader: handlers *)

setHighlightSelection(v) == highlightSelection' = v

\* Faulty variant: reset() leaves the observer on the mutation it follows
resetLeavesObserver == UNCHANGED currentMutation

\* MutationObserver.reset(): stop following the current mutation; the
\* request itself is not aborted.
resetTutorSuggestion == currentMutation' = NoMutation

\* Faulty variant: clearHighlight without its resetTutorSuggestion() call
clearHighlightKeepsRequest ==
    /\ setHighlightSelection(None)
    /\ platformSelection' = NoRanges
    /\ UNCHANGED <<requests, currentMutation>>

clearHighlight ==
    /\ setHighlightSelection(None)
    /\ resetTutorSuggestion
    /\ platformSelection' = NoRanges
    /\ UNCHANGED requests

\* Faulty variant: the flag effect drops the selection but not the request
FlagChangeKeepsRequest ==
    /\ tutorFeatureEnabled' = ~tutorFeatureEnabled
    /\ IF ~tutorFeatureEnabled'
       THEN setHighlightSelection(None) /\ UNCHANGED currentMutation
       ELSE UNCHANGED <<highlightSelection, currentMutation>>
    /\ Event("flag", FALSE, FALSE)
    /\ UNCHANGED <<selectedWord, platformSelection, requests>>

\* useEffect on [tutorFeatureEnabled]: runs after the render that saw the
\* flag change.
FlagChange ==
    /\ tutorFeatureEnabled' = ~tutorFeatureEnabled
    /\ IF ~tutorFeatureEnabled'
       THEN setHighlightSelection(None) /\ resetTutorSuggestion
       ELSE UNCHANGED <<highlightSelection, currentMutation>>
    /\ Event("flag", FALSE, FALSE)
    /\ UNCHANGED <<selectedWord, platformSelection, requests>>

\* word.replace(/[.,;:!?·\[\]()]/g, '').trim()
RECURSIVE StripPunctuation(_)
StripPunctuation(w) ==
    IF w = <<>> THEN <<>>
    ELSE IF Head(w) = "." THEN StripPunctuation(Tail(w))
         ELSE <<Head(w)>> \o StripPunctuation(Tail(w))

cleanWord(word) == Trim(StripPunctuation(word))

handleWordClick(word, segmentId) ==
    /\ clearHighlight
    /\ IF cleanWord(word) = <<>>
       THEN UNCHANGED selectedWord
       ELSE selectedWord' = [word |-> cleanWord(word), segmentId |-> segmentId]
    /\ Event("wordClick", FALSE, TRUE)
    /\ UNCHANGED tutorFeatureEnabled

\* selection.toString().replace(/\s+/g, ' ').trim()
rawText(sel) == Trim(CollapseSpaces(sel.text))

\* getSegmentElement(anchorNode) ?? getSegmentElement(focusNode)
segmentElement(sel) ==
    IF sel.anchorSeg # NoSegment THEN sel.anchorSeg ELSE sel.focusSeg

\* data-segment-reference={segment.reference} of the segment's element
segmentReference(segmentId) == <<"ref", segmentId>>

\* Faulty variant: handleTextHighlight without the feature-flag guard
highlightGuardMissing == TRUE

\* if (!tutorFeatureEnabled || !textContainerRef.current) return;
\* the ref is set from the first render on.
highlightGuard == tutorFeatureEnabled

\* Faulty variant: a new selection is held without resetTutorSuggestion()
acceptSelectionKeepsSuggestion(sel) ==
    /\ setHighlightSelection([selection |-> rawText(sel),
                              segmentId |-> segmentElement(sel),
                              reference |-> segmentReference(segmentElement(sel))])
    /\ UNCHANGED <<platformSelection, requests, currentMutation>>

\* The selection maps to a segment: hold it and drop any earlier suggestion
acceptSelection(sel) ==
    /\ setHighlightSelection([selection |-> rawText(sel),
                              segmentId |-> segmentElement(sel),
                              reference |-> segmentReference(segmentElement(sel))])
    /\ resetTutorSuggestion
    /\ UNCHANGED <<platformSelection, requests>>

handleTextHighlight ==
    /\ IF ~highlightGuard
       THEN /\ UNCHANGED <<highlightSelection, requests, currentMutation, platformSelection>>
            /\ Event("mouseup", FALSE, FALSE)
       ELSE IF platformSelection.isCollapsed \/ rawText(platformSelection) = <<>>
            THEN clearHighlight /\ Event("mouseup", TRUE, TRUE)
            ELSE /\ Event("mouseup", TRUE, FALSE)
                 /\ IF \/ segmentElement(platformSelection) = NoSegment
                       \/ platformSelection.rangeCount = 0
                    THEN UNCHANGED <<highlightSelection, requests, currentMutation,
                                     platformSelection>>
                    ELSE acceptSelection(platformSelection)
    /\ UNCHANGED <<tutorFeatureEnabled, selectedWord>>

\* Faulty variant: the request is dispatched without the segment and the
\* reference of the selection
requestWithoutSegment(payload) ==
    /\ requests' = Append(requests,
          [text_id |-> payload.text_id, segment_id |-> NoSegment,
           selection |-> payload.selection, language |-> payload.language,
           segment_reference |-> <<>>,
           selection_length |-> payload.selection_length, state |-> "pending",
           error |-> None])
    /\ currentMutation' = Len(requests) + 1

\* MutationObserver.mutate(): build a new mutation, follow it, execute it
requestTranslationSuggestion(payload) ==
    /\ requests' = Append(requests,
          [text_id |-> payload.text_id, segment_id |-> payload.segment_id,
           selection |-> payload.selection, language |-> payload.language,
           segment_reference |-> payload.segment_reference,
           selection_length |-> payload.selection_length, state |-> "pending",
           error |-> None])
    /\ currentMutation' = Len(requests) + 1

handleAskTutor ==
    /\ askButtonEnabled
    /\ Len(requests) < MaxReq
    /\ highlightSelection # None
    /\ requestTranslationSuggestion(
          [text_id |-> TextId,
           segment_id |-> highlightSelection.segmentId,
           selection |-> highlightSelection.selection,
           language |-> TextLanguage,
           segment_reference |-> highlightSelection.reference,
           selection_length |-> Len(highlightSelection.selection)])
    /\ Event("ask", FALSE, FALSE)
    /\ UNCHANGED <<tutorFeatureEnabled, highlightSelection, selectedWord, platformSelection>>

\* onClose={clearHighlight} of the popover
PopoverClose ==
    /\ popoverShown
    /\ clearHighlight
    /\ Event("close", FALSE, TRUE)
    /\ UNCHANGED <<tutorFeatureEnabled, selectedWord>>

\* Faulty variant: scrolling leaves the popover open
handleScrollIgnored ==
    /\ UNCHANGED <<highlightSelection, requests, currentMutation, platformSelection>>
    /\ Event("scroll", FALSE, FALSE)
    /\ UNCHANGED <<tutorFeatureEnabled, selectedWord>>

handleScroll ==
    /\ IF highlightSelection # None
       THEN clearHighlight /\ Event("scroll", FALSE, TRUE)
       ELSE /\ UNCHANGED <<highlightSelection, requests, currentMutation, platformSelection>>
            /\ Event("scroll", FALSE, FALSE)
    /\ UNCHANGED <<tutorFeatureEnabled, selectedWord>>

\* The error object a settling mutation stores.  The observer reads the error
\* of the mutation it follows only, and a mutation it has left is never
\* followed again, so the shape of an unread error is not distinguished.
SettledErrors(i, outcome) ==
    IF outcome # "error" THEN {None}
    ELSE IF i = currentMutation THEN GatewayErrors
    ELSE {[detail |-> Absent, message |-> "Network Error"]}

\* Faulty variant: the gateway's answer is lost and the mutation stays pending
GatewayAnswerLost(i, outcome) ==
    /\ requests[i].state = "pending"
    /\ Event(outcome, FALSE, FALSE)
    /\ UNCHANGED <<tutorFeatureEnabled, highlightSelection, selectedWord,
                   platformSelection, currentMutation, requests>>

\* tutorApi.suggestTranslation settles: the mutation takes the outcome; the
\* observer shows it only if it still follows that mutation.
GatewayResponds(i, outcome) ==
    /\ requests[i].state = "pending"
    /\ \E e \in SettledErrors(i, outcome) :
          requests' = [requests EXCEPT ![i].state = outcome, ![i].error = e]
    /\ Event(outcome, FALSE, FALSE)
    /\ UNCHANGED <<tutorFeatureEnabled, highlightSelection, selectedWord,
                   platformSelection, currentMutation>>

\* The user drags, clicks or clears a selection on the page
UserSelects(sel) ==
    /\ platformSelection # sel
    /\ platformSelection' = sel
    /\ Event("select", FALSE, FALSE)
    /\ UNCHANGED <<tutorFeatureEnabled, highlightSelection, selectedWord,
                   requests, currentMutation>>

-----------------------------------------------------------------------------
(* HighlightableText: the highlight overlay renderer *)

Min(a, b) == IF a < b THEN a ELSE b
Max(a, b) == IF a > b THEN a ELSE b

\* String.prototype.slice(a, b): a negative index counts from the end, both
\* indices are clamped to [0, length], and an empty string results when the
\* start is not before the end.
SliceIndex(s, i) == IF i < 0 THEN Max(Len(s) + i, 0) ELSE Min(i, Len(s))

Slice(s, a, b) == SubSeq(s, SliceIndex(s, a) + 1, SliceIndex(s, b))

SliceFrom(s, a) == SubSeq(s, SliceIndex(s, a) + 1, Len(s))

\* One content of every length up to MaxLen, no two neighbouring characters
\* alike: "a", "a ", "a b", "a ba", ...
SampleContent(n) ==
    [i \in 1 .. n |-> IF i % 3 = 1 THEN "a" ELSE IF i % 3 = 2 THEN " " ELSE "b"]

Contents == {SampleContent(n) : n \in 0 .. MaxLen}
Offsets == (0 - 1) .. (MaxLen + 1)

\* Highlight lists as a store can return them: ids are unique, offsets are
\* any numbers (the renderer guards against corrupt rows).
RECURSIVE HighlightLists(_)
HighlightLists(n) ==
    IF n = 0 THEN {<<>>}
    ELSE LET shorter == HighlightLists(n - 1)
         IN  shorter \cup
             {Append(l, [id |-> n, start_offset |-> s, end_offset |-> e]) :
                 l \in {t \in shorter : Len(t) = n - 1}, s \in Offsets, e \in Offsets}

\* [...highlights].sort((a, b) => a.start_offset - b.start_offset): a stable
\* sort of a copy.
RECURSIVE InsertByStart(_, _)
InsertByStart(sorted, h) ==
    IF sorted = <<>> THEN <<h>>
    ELSE IF h.start_offset < Head(sorted).start_offset
         THEN <<h>> \o sorted
         ELSE <<Head(sorted)>> \o InsertByStart(Tail(sorted), h)

RECURSIVE sortedHighlights(_)
sortedHighlights(hs) ==
    IF hs = <<>> THEN <<>>
    ELSE InsertByStart(sortedHighlights(SubSeq(hs, 1, Len(hs) - 1)), hs[Len(hs)])

\* The highlights prop after a render: the sort works on a copy
highlightsAfterRender(hs) == hs

\* A turn of the loop that renders a highlight starting below the cursor
RenderHighlightNoSkip(c, st, h) ==
    IF h.start_offset > Len(c) THEN st
    ELSE LET before ==
                 IF h.start_offset > st.lastIndex
                 THEN Append(st.elements,
                             [kind |-> "text", key |-> st.lastIndex,
                              text |-> Slice(c, st.lastIndex, h.start_offset)])
                 ELSE st.elements
         IN  [elements |-> Append(before,
                             [kind |-> "highlight", key |-> h.id,
                              text |-> Slice(c, h.start_offset, h.end_offset)]),
              lastIndex |-> h.end_offset]

\* One turn of sortedHighlights.forEach in renderContent; st is
\* [elements, lastIndex].
RenderHighlight(c, st, h) ==
    IF h.start_offset < st.lastIndex THEN st
    ELSE IF h.start_offset > Len(c) THEN st
    ELSE LET before ==
                 IF h.start_offset > st.lastIndex
                 THEN Append(st.elements,
                             [kind |-> "text", key |-> st.lastIndex,
                              text |-> Slice(c, st.lastIndex, h.start_offset)])
                 ELSE st.elements
         IN  [elements |-> Append(before,
                             [kind |-> "highlight", key |-> h.id,
                              text |-> Slice(c, h.start_offset, h.end_offset)]),
              lastIndex |-> h.end_offset]

RECURSIVE RenderLoop(_, _, _)
RenderLoop(c, st, hs) ==
    IF hs = <<>> THEN st
    ELSE RenderLoop(c, RenderHighlight(c, st, Head(hs)), Tail(hs))

\* The remaining text after the last highlight
RenderRemaining(c, st) ==
    IF st.lastIndex < Len(c)
    THEN Append(st.elements,
                [kind |-> "text", key |-> st.lastIndex,
                 text |-> SliceFrom(c, st.lastIndex)])
    ELSE st.elements

renderContent(c, hs) ==
    RenderRemaining(c,
        RenderLoop(c, [elements |-> <<>>, lastIndex |-> 0], sortedHighlights(hs)))

\* renderWords: text.split(/(\s+)/) keeps the separators; empty parts render
\* nothing; every other part is one span holding exactly that part.
RECURSIVE TakeRun(_, _)
TakeRun(s, space) ==
    IF s # <<>> /\ IsSpace(Head(s)) = space
    THEN <<Head(s)>> \o TakeRun(Tail(s), space)
    ELSE <<>>

\* Faulty variant: a tokenizer that splits on whitespace and drops it
RECURSIVE renderWordsDropsSpaces(_)
renderWordsDropsSpaces(text) ==
    IF text = <<>> THEN <<>>
    ELSE LET run == TakeRun(text, IsSpace(Head(text)))
         IN  (IF IsSpace(Head(text)) THEN <<>> ELSE <<[kind |-> "word", text |-> run]>>)
             \o renderWordsDropsSpaces(SubSeq(text, Len(run) + 1, Len(text)))

RECURSIVE renderWords(_)
renderWords(text) ==
    IF text = <<>> THEN <<>>
    ELSE LET run == TakeRun(text, IsSpace(Head(text)))
         IN  <<[kind |-> IF IsSpace(Head(text)) THEN "space" ELSE "word",
                text |-> run]>>
             \o renderWords(SubSeq(text, Len(run) + 1, Len(text)))

RECURSIVE ConcatTexts(_)
ConcatTexts(parts) ==
    IF parts = <<>> THEN <<>> ELSE Head(parts).text \o ConcatTexts(Tail(parts))

\* The text nodes under the container, in document order: each element's
\* text as its word and whitespace spans hold it.  The popover's buttons
\* hold no text.
RECURSIVE containerText(_)
containerText(els) ==
    IF els = <<>> THEN <<>>
    ELSE ConcatTexts(renderWords(Head(els).text)) \o containerText(Tail(els))

\* The component renders with its current props
Render ==
    /\ ~rendered
    /\ elements' = renderContent(content, highlights)
    /\ highlights' = highlightsAfterRender(highlights)
    /\ rendered' = TRUE
    /\ UNCHANGED <<content, domRange, selection, submitted, deleting>>

-----------------------------------------------------------------------------
(* HighlightableText: the offset mapper and highlight creation *)

\* Text the page renders before and after the container of the segment
\* under study: the reference label and the neighbouring segments.
PageBefore == <<"x">>
PageAfter == <<"x">>

\* Range.toString() over the whole page: the text nodes in document order
pageText(els) == PageBefore \o containerText(els) \o PageAfter

\* Boundary points are counted in characters from the start of the page
containerStart == Len(PageBefore)
containerEnd(els) == containerStart + Len(containerText(els))

InContainer(els, p) == containerStart <= p /\ p <= containerEnd(els)

\* The ranges a gesture over the segment can leave: at least one boundary
\* point lies in the container, the other anywhere on the page
DomRanges(els) ==
    {r \in [start : 0 .. Len(pageText(els)), end : 0 .. Len(pageText(els))] :
        r.start <= r.end /\ (InContainer(els, r.start) \/ InContainer(els, r.end))}

RangeText(els, r) == SubSeq(pageText(els), r.start + 1, r.end)

\* preSelectionRange: selectNodeContents(container), then
\* setEnd(range.startContainer, range.startOffset).  An end set before the
\* range's start collapses the range onto that point.
preSelectionLength(els, r) ==
    IF r.start < containerStart THEN 0 ELSE r.start - containerStart

getSelectionOffsets(els, r) ==
    IF r = None THEN None
    ELSE [start |-> preSelectionLength(els, r),
          end |-> preSelectionLength(els, r) + Len(RangeText(els, r))]

isCollapsed(r) == r = None \/ r.start = r.end

\* The pointer is released over the container; r is the range the gesture
\* has left on the page, which window.getSelection() now reports.
onMouseUp(r) ==
    /\ rendered
    /\ domRange' = r
    /\ LET offsets == getSelectionOffsets(elements, r)
       IN  IF offsets # None /\ ~isCollapsed(r)
           THEN IF Trim(RangeText(elements, r)) # <<>>
                THEN selection' = [start |-> offsets.start, end |-> offsets.end,
                                   text |-> RangeText(elements, r)]
                ELSE UNCHANGED selection
           ELSE selection' = None
    /\ UNCHANGED <<content, highlights, elements, rendered, submitted, deleting>>

\* Faulty variant: the new row is put into the list when the write is
\* dispatched, before the store answers.
createHighlightOptimistic ==
    /\ rendered
    /\ selection # None
    /\ Len(highlights) + Len(submitted) < MaxStored
    /\ submitted' = Append(submitted,
          [start_offset |-> selection.start, end_offset |-> selection.end,
           selected_text |-> selection.text])
    /\ highlights' = Append(highlights,
          [id |-> Len(highlights) + Len(submitted) + 1,
           start_offset |-> selection.start, end_offset |-> selection.end])
    /\ elements' = renderContent(content, highlights')
    /\ UNCHANGED <<content, rendered, domRange, selection, deleting>>

\* createHighlight's mutationFn: what it sends to studyApi.createHighlight.
\* Without a selection it throws 'No selection' and sends nothing.
mutationFn(sel) ==
    IF sel = None THEN <<>>
    ELSE <<[start_offset |-> sel.start, end_offset |-> sel.end,
            selected_text |-> sel.text]>>

\* A colour button of the selection popover: createHighlight.mutate(color)
\* hands the pending selection to studyApi.createHighlight.
createHighlight ==
    /\ rendered
    /\ selection # None
    /\ Len(highlights) + Len(submitted) < MaxStored
    /\ submitted' = submitted \o mutationFn(selection)
    /\ UNCHANGED <<content, highlights, elements, rendered, domRange, selection, deleting>>

\* The id the store gives a new row: one that no listed row has
NextHighlightId(hs) ==
    CHOOSE n \in 1..(Len(hs) + 1) :
        /\ \A i \in DOMAIN hs : hs[i].id # n
        /\ \A m \in 1..(n - 1) : \E i \in DOMAIN hs : hs[i].id = m

\* The store confirms a create: onSuccess invalidates the highlights query
\* (the list comes back with the new row and the component renders it),
\* clears the pending selection and removes the platform's ranges.
createHighlightSucceeds(i) ==
    /\ i \in DOMAIN submitted
    /\ highlights' = Append(highlights,
          [id |-> NextHighlightId(highlights),
           start_offset |-> submitted[i].start_offset,
           end_offset |-> submitted[i].end_offset])
    /\ elements' = renderContent(content, highlights')
    /\ submitted' = SubSeq(submitted, 1, i - 1) \o SubSeq(submitted, i + 1, Len(submitted))
    /\ selection' = None
    /\ domRange' = None
    /\ UNCHANGED <<content, rendered, deleting>>

\* Faulty variant: a rejected create also drops the pending selection
createHighlightFailsClears(i) ==
    /\ i \in DOMAIN submitted
    /\ submitted' = SubSeq(submitted, 1, i - 1) \o SubSeq(submitted, i + 1, Len(submitted))
    /\ selection' = None
    /\ UNCHANGED <<content, highlights, elements, rendered, domRange, deleting>>

\* The store rejects a create: no onSuccess, nothing changes
createHighlightFails(i) ==
    /\ i \in DOMAIN submitted
    /\ submitted' = SubSeq(submitted, 1, i - 1) \o SubSeq(submitted, i + 1, Len(submitted))
    /\ UNCHANGED <<content, highlights, elements, rendered, domRange, selection, deleting>>

\* Faulty variant: the delete is dispatched whatever the user answers
deleteHighlightUnconfirmed(id, confirmed) ==
    /\ rendered
    /\ \E i \in DOMAIN elements :
          elements[i].kind = "highlight" /\ elements[i].key = id
    /\ id \notin deleting
    /\ deleting' = deleting \cup {id}
    /\ UNCHANGED <<content, highlights, elements, rendered, domRange, selection,
                   submitted>>

\* A click on a rendered highlight span: confirm('Remove highlight?') and,
\* if the user agrees, deleteHighlight.mutate(highlight.id).  Only a highlight
\* that got a span can be clicked.
deleteHighlight(id, confirmed) ==
    /\ rendered
    /\ \E i \in DOMAIN elements :
          elements[i].kind = "highlight" /\ elements[i].key = id
    /\ id \notin deleting
    /\ deleting' = IF confirmed THEN deleting \cup {id} ELSE deleting
    /\ UNCHANGED <<content, highlights, elements, rendered, domRange, selection,
                   submitted>>

\* The store confirms a delete: onSuccess invalidates the highlights query;
\* the list comes back without the row and the component renders it.  The
\* spans a live range lay in are replaced, so no range is left over the text.
deleteHighlightSucceeds(id) ==
    /\ id \in deleting
    /\ highlights' = SelectSeq(highlights, LAMBDA h : h.id # id)
    /\ elements' = renderContent(content, highlights')
    /\ deleting' = deleting \ {id}
    /\ domRange' = None
    /\ UNCHANGED <<content, rendered, selection, submitted>>

\* The store rejects a delete: no onSuccess, nothing changes
deleteHighlightFails(id) ==
    /\ id \in deleting
    /\ deleting' = deleting \ {id}
    /\ UNCHANGED <<content, highlights, elements, rendered, domRange, selection,
                   submitted>>

\* The user selects somewhere else on the page: no mouse-up reaches this
\* container, and the platform's selection no longer touches it
UserSelectsElsewhere ==
    /\ rendered
    /\ domRange # None
    /\ domRange' = None
    /\ UNCHANGED <<content, highlights, elements, rendered, selection, submitted, deleting>>

\* What the store holds for the segment when the page loads: nothing, one
\* earlier highlight over the first character, or one corrupt row that ends
\* before it starts
EarlierHighlights ==
    {<<>>,
     <<[id |-> 1, start_offset |-> 0, end_offset |-> 1]>>,
     <<[id |-> 1, start_offset |-> 1, end_offset |-> 0]>>}

HtInit ==
    /\ content \in Contents
    /\ highlights \in EarlierHighlights
    /\ elements = renderContent(content, highlights)
    /\ rendered = TRUE
    /\ domRange = None
    /\ selection = None
    /\ submitted = <<>>
    /\ deleting = {}

HtIdle ==
    /\ content = <<>>
    /\ highlights = <<>>
    /\ elements = <<>>
    /\ rendered = FALSE
    /\ domRange = None
    /\ selection = None
    /\ submitted = <<>>
    /\ deleting = {}

RenderInit ==
    /\ content \in Contents
    /\ highlights \in HighlightLists(MaxHl)
    /\ elements = <<>>
    /\ rendered = FALSE
    /\ domRange = None
    /\ selection = None
    /\ submitted = <<>>
    /\ deleting = {}

-----------------------------------------------------------------------------
(* The tutor selection lifecycle *)

CtlInit ==
    /\ tutorFeatureEnabled \in BOOLEAN
    /\ highlightSelection = None
    /\ selectedWord = None
    /\ platformSelection = NoRanges
    /\ requests = <<>>
    /\ currentMutation = NoMutation
    /\ lastEvent = [name |-> "mount", from |-> "Idle", readSelection |-> FALSE,
                    cleared |-> FALSE, afterClear |-> FALSE]

\* ToolsPanel as mounted: morphology tab, expanded
TpIdle ==
    /\ activeTab = "morphology"
    /\ panelCollapsed = FALSE
    /\ toolsCommitted = TRUE

\* No click has happened
ClickIdle ==
    lastClick = [run |-> 0, token |-> 0, selecting |-> FALSE, word |-> <<>>,
                 asked |-> FALSE]

\* AuthProvider outside the specifications that follow it: nobody signed in
AuthIdle ==
    /\ urlToken = Absent
    /\ storedToken = Absent
    /\ user = Absent
    /\ isLoading = FALSE
    /\ authPhase = "ready"
    /\ meAnswer = "none"
    /\ validTokens = {}
    /\ location = "/login"

Init == CtlInit /\ HtIdle /\ TpIdle /\ ClickIdle /\ AuthIdle

Next ==
    \/ FlagChange /\ UNCHANGED notCtlVars
    \/ handleTextHighlight /\ UNCHANGED notCtlVars
    \/ handleAskTutor /\ UNCHANGED notCtlVars
    \/ PopoverClose /\ UNCHANGED notCtlVars
    \/ handleScroll /\ UNCHANGED notCtlVars
    \/ \E w \in Words, s \in ClickedSegments : handleWordClick(w, s) /\ UNCHANGED notCtlVars
    \/ \E i \in DOMAIN requests, o \in {"success", "error"} :
          GatewayResponds(i, o) /\ UNCHANGED notCtlVars
    \/ \E sel \in PlatformSelections : UserSelects(sel) /\ UNCHANGED notCtlVars

Spec == Init /\ [][Next]_vars

\* The gateway eventually answers every request it was sent
GatewayFairness ==
    \A i \in 1..MaxReq :
        WF_vars(/\ i \in DOMAIN requests
                /\ \E o \in {"success", "error"} : GatewayResponds(i, o)
                /\ UNCHANGED notCtlVars)

SpecFair == Init /\ [][Next]_vars /\ GatewayFairness

-----------------------------------------------------------------------------
(* Claims about the tutor selection lifecycle *)

\* Idle with nothing held: no pending selection, no popover, no suggestion,
\* no error, not loading
NothingHeld ==
    /\ highlightSelection = None
    /\ ~popoverShown
    /\ tutorSuggestion = NoMutation
    /\ tutorError = NoMutation
    /\ ~isTutorPending

ResponseArrives == \E i \in DOMAIN requests, o \in {"success", "error"} : GatewayResponds(i, o)

\* A mouse-up that finds a selection handleTextHighlight maps to a segment
ValidSelectionArrives ==
    /\ handleTextHighlight
    /\ tutorFeatureEnabled
    /\ ~platformSelection.isCollapsed
    /\ rawText(platformSelection) # <<>>
    /\ segmentElement(platformSelection) # NoSegment

\* C2: a tutor response, success or error, that arrives after the controller
\* has returned to Idle is discarded: the controller stays Idle, no popover
\* appears, and no suggestion, error or loading state becomes held.
C2_LateResponseDiscarded ==
    [][(highlightSelection = None /\ ResponseArrives) => NothingHeld']_vars

\* A response arrived for a request whose popover had been dismissed
C2_Witness ==
    /\ lastEvent.name \in {"success", "error"}
    /\ lastEvent.from = "Idle"
    /\ highlightSelection = None
    /\ \E i \in DOMAIN requests : requests[i].state # "pending"

\* C3 (a): a valid selection S2 arriving while a request is in flight is held
\* at once in AwaitingAction, with no suggestion, no error, not loading.
C3_NewSelectionSupersedes ==
    (ControllerState = "Requesting" /\ ValidSelectionArrives)
        => /\ ControllerState' = "AwaitingAction"
           /\ highlightSelection' =
                 [selection |-> rawText(platformSelection),
                  segmentId |-> segmentElement(platformSelection),
                  reference |-> segmentReference(segmentElement(platformSelection))]
           /\ tutorSuggestion' = NoMutation
           /\ tutorError' = NoMutation
           /\ ~isTutorPending'

\* C3 (b): whatever the observer follows, and so any suggestion or error the
\* popover shows, belongs to a request dispatched for the held selection.
C3_ShownResultIsForHeldSelection ==
    currentMutation # NoMutation
        => /\ highlightSelection # None
           /\ requests[currentMutation].selection = highlightSelection.selection
           /\ requests[currentMutation].segment_id = highlightSelection.segmentId

\* C3: a selection that supersedes an in-flight request is shown in
\* AwaitingAction at once, and no later state shows the superseded
\* request's response under it.
C3_SupersededResponseNeverShown ==
    /\ [][C3_NewSelectionSupersedes]_vars
    /\ []C3_ShownResultIsForHeldSelection

\* S1 was asked, S2 superseded it and was asked in turn, S1's response has
\* arrived and the popover still waits for S2's
C3_Witness ==
    /\ Len(requests) = 2
    /\ requests[1].segment_id # requests[2].segment_id
    /\ requests[1].state = "success"
    /\ lastEvent.name = "success"
    /\ currentMutation = 2
    /\ ControllerState = "Requesting"
    /\ highlightSelection.segmentId = requests[2].segment_id

\* C6: while the feature flag is disabled the controller is Idle, the
\* popover is not rendered, no request is dispatched, and
\* handleTextHighlight returns before reading the platform selection.
C6_DisabledStaysIdle ==
    /\ [](~tutorFeatureEnabled =>
            /\ NothingHeld
            /\ (lastEvent.name = "mouseup" => ~lastEvent.readSelection))
    /\ [][~tutorFeatureEnabled => Len(requests') = Len(requests)]_vars

\* A mouse-up over a live, valid selection while the flag is disabled
C6_Witness ==
    /\ ~tutorFeatureEnabled
    /\ lastEvent.name = "mouseup"
    /\ ~platformSelection.isCollapsed
    /\ rawText(platformSelection) # <<>>
    /\ segmentElement(platformSelection) # NoSegment

\* C7: clearHighlight from any state yields Idle, and a second consecutive
\* clearHighlight leaves the controller's state as the first left it.
C7_ClearIdempotent ==
    /\ [][lastEvent'.cleared => NothingHeld']_vars
    /\ [][(lastEvent.cleared /\ lastEvent'.cleared) =>
            UNCHANGED <<tutorFeatureEnabled, highlightSelection, platformSelection,
                        requests, currentMutation>>]_vars

\* clearHighlight ran twice in a row, the first time with a request in flight
C7_Witness ==
    /\ lastEvent.cleared
    /\ lastEvent.afterClear
    /\ lastEvent.from = "Idle"
    /\ \E i \in DOMAIN requests : requests[i].state = "pending"

\* C8: the popover's close, a scroll of the text container and the feature
\* flag becoming disabled each take the controller to Idle, from every
\* state.
C8_CloseScrollDisableReachIdle ==
    [][(\/ lastEvent'.name \in {"close", "scroll"}
        \/ (lastEvent'.name = "flag" /\ ~tutorFeatureEnabled'))
       => NothingHeld']_vars

\* A scroll took the controller from Resolved to Idle
C8_Witness ==
    /\ lastEvent.name = "scroll"
    /\ lastEvent.from = "Resolved"
    /\ NothingHeld

-----------------------------------------------------------------------------
(* The renderer on every content and highlight list *)

CtlIdle ==
    /\ tutorFeatureEnabled = TRUE
    /\ highlightSelection = None
    /\ selectedWord = None
    /\ platformSelection = NoRanges
    /\ requests = <<>>
    /\ currentMutation = NoMutation
    /\ lastEvent = [name |-> "mount", from |-> "Idle", readSelection |-> FALSE,
                    cleared |-> FALSE, afterClear |-> FALSE]

RenderNext == Render /\ UNCHANGED notHtVars

InitRender == RenderInit /\ CtlIdle /\ TpIdle /\ ClickIdle /\ AuthIdle

SpecRender == InitRender /\ [][RenderNext]_vars



-----------------------------------------------------------------------------
(* HighlightableText over one segment of the page *)

StoredIds == {highlights[i].id : i \in DOMAIN highlights}

HtNext ==
    \/ \E r \in DomRanges(elements) \cup {None} : onMouseUp(r) /\ UNCHANGED notHtVars
    \/ createHighlight /\ UNCHANGED notHtVars
    \/ \E i \in DOMAIN submitted : createHighlightSucceeds(i) /\ UNCHANGED notHtVars
    \/ \E i \in DOMAIN submitted : createHighlightFails(i) /\ UNCHANGED notHtVars
    \/ \E id \in StoredIds, ok \in BOOLEAN : deleteHighlight(id, ok) /\ UNCHANGED notHtVars
    \/ \E id \in deleting : deleteHighlightSucceeds(id) /\ UNCHANGED notHtVars
    \/ \E id \in deleting : deleteHighlightFails(id) /\ UNCHANGED notHtVars
    \/ UserSelectsElsewhere /\ UNCHANGED notHtVars

InitHT == HtInit /\ CtlIdle /\ TpIdle /\ ClickIdle /\ AuthIdle

SpecHT == InitHT /\ [][HtNext]_vars

-----------------------------------------------------------------------------
\* ToolsPanel (the side panel of TextReader).  A state update schedules a
\* render; a render pass that calls a setter itself is thrown away and run
\* again, and only a pass that calls none is committed.  The user acts on
\* what a committed pass has drawn.

\* A word of either segment is clicked in the text; TextReader renders the
\* panel with the new selectedWord
ToolsWordClick(word, segmentId) ==
    /\ toolsCommitted
    /\ handleWordClick(word, segmentId)
    /\ toolsCommitted' = FALSE
    /\ UNCHANGED <<activeTab, panelCollapsed>>

\* onCloseWord={() => setSelectedWord(null)}: the close button of the word
\* analysis, drawn in the morphology view of the expanded panel
onCloseWord ==
    /\ toolsCommitted
    /\ selectedWord # None
    /\ ~panelCollapsed
    /\ activeTab = "morphology"
    /\ selectedWord' = None
    /\ toolsCommitted' = FALSE
    /\ UNCHANGED <<tutorFeatureEnabled, highlightSelection, platformSelection,
                   requests, currentMutation, lastEvent, activeTab, panelCollapsed>>

\* The Morphology and Notes tab buttons, drawn when the panel is expanded
setActiveTab(tab) ==
    /\ toolsCommitted
    /\ ~panelCollapsed
    /\ activeTab' = tab
    /\ toolsCommitted' = (activeTab = tab)
    /\ UNCHANGED <<ctlVars, panelCollapsed>>

\* The collapse button of the expanded panel and the expand button of the
\* collapsed bar
setIsCollapsed(v) ==
    /\ toolsCommitted
    /\ panelCollapsed # v
    /\ panelCollapsed' = v
    /\ toolsCommitted' = FALSE
    /\ UNCHANGED <<ctlVars, activeTab>>

\* Faulty variant: a render pass that forces the tab but never expands
ToolsPanelRenderTabOnly ==
    /\ ~toolsCommitted
    /\ LET forceTab == selectedWord # None /\ activeTab # "morphology"
       IN  /\ activeTab' = IF forceTab THEN "morphology" ELSE activeTab
           /\ toolsCommitted' = ~forceTab
    /\ UNCHANGED <<ctlVars, panelCollapsed>>

\* One render pass of ToolsPanel: the two conditional setters at its top
ToolsPanelRender ==
    /\ ~toolsCommitted
    /\ LET forceTab == selectedWord # None /\ activeTab # "morphology"
           forceExpand == selectedWord # None /\ panelCollapsed
       IN  /\ activeTab' = IF forceTab THEN "morphology" ELSE activeTab
           /\ panelCollapsed' = IF forceExpand THEN FALSE ELSE panelCollapsed
           /\ toolsCommitted' = (~forceTab /\ ~forceExpand)
    /\ UNCHANGED ctlVars

\* The user changes the platform selection while the panel is drawn
ToolsUserSelects(sel) ==
    /\ toolsCommitted
    /\ UserSelects(sel)
    /\ UNCHANGED tpVars

ToolsNext ==
    \/ \E w \in Words, s \in SegmentIds : ToolsWordClick(w, s) /\ UNCHANGED notTpVars
    \/ onCloseWord /\ UNCHANGED notTpVars
    \/ \E tab \in {"morphology", "notes"} : setActiveTab(tab) /\ UNCHANGED notTpVars
    \/ \E v \in BOOLEAN : setIsCollapsed(v) /\ UNCHANGED notTpVars
    \/ ToolsPanelRender /\ UNCHANGED notTpVars
    \/ \E sel \in PlatformSelections : ToolsUserSelects(sel) /\ UNCHANGED notTpVars

InitTools == CtlIdle /\ HtIdle /\ TpIdle /\ ClickIdle /\ AuthIdle

SpecTools == InitTools /\ [][ToolsNext]_vars

-----------------------------------------------------------------------------
\* Clicks on the spans HighlightableText has rendered.  A run's span holds
\* one span per token of renderWords; a click on a token reaches the token's
\* own handler first and then, bubbling, the handler of the run's span.

\* window.getSelection()?.toString().length === 0 is false
selectingText == domRange # None /\ RangeText(elements, domRange) # <<>>

\* Faulty variant: the word handler does not look at the platform selection
wordOnClickUnguarded(part) == part.kind = "word"

\* The word span's onClick: onWordClick(part) is called only if no text is
\* selected.  Whitespace spans have no handler.
wordOnClick(part) == part.kind = "word" /\ ~selectingText

\* A click on token j of run i; ok is the user's answer to confirm() when the
\* click reaches a highlight's span.
ClickToken(i, j, ok) ==
    /\ rendered
    /\ i \in DOMAIN elements
    /\ j \in DOMAIN renderWords(elements[i].text)
    /\ LET part == renderWords(elements[i].text)[j]
           onRun == elements[i].kind = "highlight"
       IN  /\ lastClick' = [run |-> i, token |-> j, selecting |-> selectingText,
                            word |-> IF wordOnClick(part) THEN part.text ELSE <<>>,
                            asked |-> onRun]
           /\ IF onRun
              THEN deleteHighlight(elements[i].key, ok)
              ELSE /\ ~ok
                   /\ UNCHANGED htVars

\* A click on the padding of a highlight's span, beside its tokens: only the
\* run's own handler runs
ClickHighlightPadding(i, ok) ==
    /\ i \in DOMAIN elements
    /\ elements[i].kind = "highlight"
    /\ lastClick' = [run |-> i, token |-> 0, selecting |-> selectingText,
                     word |-> <<>>, asked |-> TRUE]
    /\ deleteHighlight(elements[i].key, ok)

notClickVars == <<ctlVars, tpVars, authVars>>

ClickNext ==
    \/ \E r \in DomRanges(elements) \cup {None} :
          onMouseUp(r) /\ UNCHANGED <<notClickVars, lastClick>>
    \/ \E i \in DOMAIN elements, j \in 1..MaxLen, ok \in BOOLEAN :
          ClickToken(i, j, ok) /\ UNCHANGED notClickVars
    \/ \E i \in DOMAIN elements, ok \in BOOLEAN :
          ClickHighlightPadding(i, ok) /\ UNCHANGED notClickVars
    \/ \E id \in deleting :
          deleteHighlightSucceeds(id) /\ UNCHANGED <<notClickVars, lastClick>>
    \/ \E id \in deleting :
          deleteHighlightFails(id) /\ UNCHANGED <<notClickVars, lastClick>>

InitClick == HtInit /\ CtlIdle /\ TpIdle /\ ClickIdle /\ AuthIdle

SpecClick == InitClick /\ [][ClickNext]_vars

-----------------------------------------------------------------------------
\* AuthProvider and PrivateRoute.

\* Tokens the OAuth redirect hands out, and the user /api/auth/me returns
\* for each
Tokens == {"t1", "t2"}
UserOf(t) == IF t = "t1" THEN "u1" ELSE "u2"
Paths == {"/", "/login"}

\* What the route under PrivateRoute shows
routeShows ==
    IF location # "/" THEN "public"
    ELSE IF isLoading THEN "loading"
    ELSE IF user # Absent THEN "content"
    ELSE "redirect"

\* A full page load (first visit, reload, or the return from the OAuth
\* redirect with ?token=): AuthProvider mounts with user null and isLoading
\* true.  Taken once the page before it has settled.
PageLoad(tok, path) ==
    /\ authPhase = "ready"
    /\ urlToken' = tok
    /\ location' = path
    /\ user' = Absent
    /\ isLoading' = TRUE
    /\ authPhase' = "mounted"
    /\ meAnswer' = "none"
    /\ UNCHANGED <<storedToken, validTokens>>

\* initAuth up to its first await: a token in the URL is stored and taken
\* out of the URL; with a token (new or stored) /api/auth/me is called;
\* with none, loading ends.
initAuth ==
    /\ authPhase = "mounted"
    /\ IF urlToken # Absent
       THEN /\ storedToken' = urlToken
            /\ urlToken' = Absent
            /\ authPhase' = "awaitingMe"
            /\ UNCHANGED isLoading
       ELSE IF storedToken # Absent
       THEN /\ authPhase' = "awaitingMe"
            /\ UNCHANGED <<storedToken, urlToken, isLoading>>
       ELSE /\ isLoading' = FALSE
            /\ authPhase' = "ready"
            /\ UNCHANGED <<storedToken, urlToken>>
    /\ UNCHANGED <<user, meAnswer, validTokens, location>>

\* /api/auth/me answers with the user: setUser(response.data), then finally
\* setIsLoading(false)
meSucceeds ==
    /\ authPhase = "awaitingMe"
    /\ storedToken \in validTokens
    /\ user' = UserOf(storedToken)
    /\ isLoading' = FALSE
    /\ authPhase' = "ready"
    /\ meAnswer' = "success"
    /\ UNCHANGED <<urlToken, storedToken, validTokens, location>>

\* Faulty variant: a failed /api/auth/me leaves the token in localStorage
meFailsKeepsToken ==
    /\ authPhase = "awaitingMe"
    /\ user' = Absent
    /\ isLoading' = FALSE
    /\ authPhase' = "ready"
    /\ meAnswer' = "failure"
    /\ UNCHANGED <<urlToken, storedToken, validTokens, location>>

\* /api/auth/me fails (token rejected, or the request itself fails):
\* removeItem('auth_token'), setUser(null), then finally setIsLoading(false)
meFails ==
    /\ authPhase = "awaitingMe"
    /\ storedToken' = Absent
    /\ user' = Absent
    /\ isLoading' = FALSE
    /\ authPhase' = "ready"
    /\ meAnswer' = "failure"
    /\ UNCHANGED <<urlToken, validTokens, location>>

\* PrivateRoute renders <Navigate to="/login" />
Redirect ==
    /\ routeShows = "redirect"
    /\ location' = "/login"
    /\ UNCHANGED <<urlToken, storedToken, user, isLoading, authPhase, meAnswer,
                   validTokens>>

\* Layout.handleLogout up to its await: authApi.logout() removes the token
\* and posts /api/auth/logout
logout ==
    /\ authPhase = "ready"
    /\ routeShows = "content"
    /\ storedToken' = Absent
    /\ authPhase' = "loggingOut"
    /\ UNCHANGED <<urlToken, user, isLoading, meAnswer, validTokens, location>>

\* The logout request settles: finally setUser(null); navigate('/login')
\* follows only if the request succeeded
logoutSettles(ok) ==
    /\ authPhase = "loggingOut"
    /\ user' = Absent
    /\ authPhase' = "ready"
    /\ location' = IF ok THEN "/login" ELSE location
    /\ UNCHANGED <<urlToken, storedToken, isLoading, meAnswer, validTokens>>

\* The server stops accepting a token
TokenExpires(t) ==
    /\ t \in validTokens
    /\ validTokens' = validTokens \ {t}
    /\ UNCHANGED <<urlToken, storedToken, user, isLoading, authPhase, meAnswer,
                   location>>

notAuthVars == <<ctlVars, htVars, tpVars, clickVars>>

AuthNext ==
    \/ \E tok \in Tokens \cup {Absent}, path \in Paths :
          PageLoad(tok, path) /\ UNCHANGED notAuthVars
    \/ initAuth /\ UNCHANGED notAuthVars
    \/ meSucceeds /\ UNCHANGED notAuthVars
    \/ meFails /\ UNCHANGED notAuthVars
    \/ Redirect /\ UNCHANGED notAuthVars
    \/ logout /\ UNCHANGED notAuthVars
    \/ \E ok \in BOOLEAN : logoutSettles(ok) /\ UNCHANGED notAuthVars
    \/ \E t \in Tokens : TokenExpires(t) /\ UNCHANGED notAuthVars

\* The page is loading: AuthProvider has mounted and its effect has not run
AuthInit ==
    /\ urlToken \in Tokens \cup {Absent}
    /\ storedToken \in Tokens \cup {Absent}
    /\ user = Absent
    /\ isLoading = TRUE
    /\ authPhase = "mounted"
    /\ meAnswer = "none"
    /\ validTokens \in SUBSET Tokens
    /\ location \in Paths

InitAuth == AuthInit /\ CtlIdle /\ HtIdle /\ TpIdle /\ ClickIdle

\* The mount effect runs, and /api/auth/me is answered
AuthFairness ==
    /\ WF_vars(initAuth /\ UNCHANGED notAuthVars)
    /\ WF_vars((meSucceeds \/ meFails) /\ UNCHANGED notAuthVars)

SpecAuth == InitAuth /\ [][AuthNext]_vars /\ AuthFairness

-----------------------------------------------------------------------------
(* Claims about the renderer *)

HighlightById(hs, id) == CHOOSE h \in {hs[i] : i \in DOMAIN hs} : h.id = id

HighlightRuns(els) == {i \in DOMAIN els : els[i].kind = "highlight"}

\* The running cursor (lastIndex) when the k-th highlight of the sorted list
\* is reached
CursorBefore(c, hs, k) ==
    RenderLoop(c, [elements |-> <<>>, lastIndex |-> 0],
               SubSeq(sortedHighlights(hs), 1, k - 1)).lastIndex

\* C1: for every content and every list of highlights, the texts of the
\* emitted runs, concatenated in order, are the content.
C1_RoundTrip == rendered => ConcatTexts(elements) = content

\* C1, the inputs on which the round trip does hold: no highlight of the
\* list ends before it starts.
C1_RoundTripOrdered ==
    (rendered /\ \A i \in DOMAIN highlights :
                    highlights[i].start_offset <= highlights[i].end_offset)
        => ConcatTexts(elements) = content

\* A highlight that ends before it starts is accepted and rewinds the cursor
C1_Witness ==
    /\ rendered
    /\ \E i \in HighlightRuns(elements) :
          LET h == HighlightById(highlights, elements[i].key)
          IN  h.end_offset < h.start_offset /\ h.end_offset >= 0
    /\ Len(ConcatTexts(elements)) > Len(content)

\* C5: every highlight that renderContent emits a highlighted run for has
\* 0 <= start_offset < end_offset <= length(content).
C5_AcceptedOffsetsValid ==
    rendered =>
        \A i \in HighlightRuns(elements) :
            LET h == HighlightById(highlights, elements[i].key)
            IN  0 <= h.start_offset /\ h.start_offset < h.end_offset
                /\ h.end_offset <= Len(content)

\* What the guards of renderContent do establish of an accepted highlight
C5_AcceptedStartInRange ==
    rendered =>
        \A i \in HighlightRuns(elements) :
            LET h == HighlightById(highlights, elements[i].key)
            IN  h.start_offset <= Len(content)

\* C4 (a): a highlight whose start_offset is below the running cursor
\* produces no run.
C4_OverlapProducesNoRun ==
    rendered =>
        LET sorted == sortedHighlights(highlights)
        IN  \A k \in DOMAIN sorted :
                sorted[k].start_offset < CursorBefore(content, highlights, k)
                    => \A i \in HighlightRuns(elements) : elements[i].key # sorted[k].id

\* C4 (b): adding such a highlight to the list leaves the emitted run
\* sequence identical.
C4_AddingOverlapChangesNothing ==
    rendered =>
        \A s \in Offsets, e \in Offsets :
            LET h == [id |-> Len(highlights) + 1, start_offset |-> s, end_offset |-> e]
                more == Append(highlights, h)
                sorted == sortedHighlights(more)
                k == CHOOSE j \in DOMAIN sorted : sorted[j].id = h.id
            IN  s < CursorBefore(content, more, k)
                    => renderContent(content, more) = elements

-----------------------------------------------------------------------------
(* Claims about the offset mapper *)

\* No stored highlight ends before it starts: the lists the renderer
\* reproduces the content for
StoredOrdered ==
    \A i \in DOMAIN highlights : highlights[i].start_offset <= highlights[i].end_offset

\* C9: every highlight submitted to createHighlight has
\* 0 <= start_offset < end_offset <= length(content),
\* end_offset = start_offset + length(selected_text) and
\* selected_text = content[start_offset:end_offset], here even with the
\* segment rendered from well-formed highlights only.
C9_SubmittedHighlightValid ==
    StoredOrdered =>
        \A i \in DOMAIN submitted :
            LET p == submitted[i]
            IN  /\ 0 <= p.start_offset
                /\ p.start_offset < p.end_offset
                /\ p.end_offset <= Len(content)
                /\ p.end_offset = p.start_offset + Len(p.selected_text)
                /\ p.selected_text = Slice(content, p.start_offset, p.end_offset)

\* What does hold of every submission: the end is the start plus the length
\* of the selected text, and the text is not blank
C9_EndIsStartPlusLength ==
    \A i \in DOMAIN submitted :
        /\ submitted[i].end_offset =
              submitted[i].start_offset + Len(submitted[i].selected_text)
        /\ Trim(submitted[i].selected_text) # <<>>

\* A selection dragged across the segment's boundary has been submitted
C9_Witness ==
    /\ StoredOrdered
    /\ \E i \in DOMAIN submitted : submitted[i].end_offset > Len(content)

\* For every range inside the container, the offsets getSelectionOffsets
\* computes are offsets into the content: the text before the range is the
\* content up to start, and the text of the range is content[start:end]
OffsetsAreContentOffsets ==
    \A r \in DomRanges(elements) :
        (InContainer(elements, r.start) /\ InContainer(elements, r.end)) =>
            LET o == getSelectionOffsets(elements, r)
            IN  /\ SubSeq(pageText(elements), containerStart + 1, r.start)
                      = Slice(content, 0, o.start)
                /\ RangeText(elements, r) = Slice(content, o.start, o.end)

\* C10: whatever highlights are rendered, the offsets computed for a
\* selection count content characters only, so a selection of the same
\* characters gets the same offsets under every set of highlights.
C10_OffsetsStable == rendered => OffsetsAreContentOffsets

\* C10 where no stored highlight ends before it starts
C10_OffsetsStableOrdered == (rendered /\ StoredOrdered) => OffsetsAreContentOffsets

\* A rendering that repeats content characters, so that the text before a
\* selection is longer than the content before it
C10_Witness ==
    /\ rendered
    /\ ~StoredOrdered
    /\ Len(containerText(elements)) > Len(content)

-----------------------------------------------------------------------------
(* Claims about the emitted runs *)

\* Where run i starts if the runs are laid end to end from 0
RunStart(els, i) == Len(ConcatTexts(SubSeq(els, 1, i - 1)))

\* The runs lie end to end over the content from 0 to its length, a
\* highlighted run is content[start_offset:end_offset] of the highlight it
\* is keyed by and lies at that start_offset, and no highlight keys two runs
RunsCoverContentOnce(c, hs, els) ==
    /\ ConcatTexts(els) = c
    /\ \A i \in DOMAIN els :
          /\ els[i].text = SubSeq(c, RunStart(els, i) + 1,
                                   RunStart(els, i) + Len(els[i].text))
          /\ els[i].kind = "highlight" =>
                LET h == HighlightById(hs, els[i].key)
                IN  /\ h.start_offset = RunStart(els, i)
                    /\ els[i].text = Slice(c, h.start_offset, h.end_offset)
    /\ \A i, j \in HighlightRuns(els) : els[i].key = els[j].key => i = j

\* C11: the runs renderContent emits cover the content exactly once, each a
\* contiguous slice starting where the previous one ended, the highlighted
\* runs disjoint and carrying content[start_offset:end_offset] of their
\* highlight.
C11_RunsCoverContentOnce ==
    rendered => RunsCoverContentOnce(content, highlights, elements)

\* C11 where no highlight of the list ends before it starts
C11_RunsCoverContentOnceOrdered ==
    (rendered /\ StoredOrdered) => RunsCoverContentOnce(content, highlights, elements)

\* A plain run emitted from a cursor that a highlight moved backwards
C11_Witness ==
    /\ rendered
    /\ \E i \in DOMAIN elements :
          /\ elements[i].kind = "text"
          /\ elements[i].text # <<>>
          /\ elements[i].key < RunStart(elements, i)

\* The same highlights in every order a store can return them
Reorderings(hs) ==
    {[i \in DOMAIN hs |-> hs[f[i]]] : f \in Permutations(DOMAIN hs)}

\* Every highlight of the list lies inside the content and is not empty
StoredInRange ==
    \A i \in DOMAIN highlights :
        /\ 0 <= highlights[i].start_offset
        /\ highlights[i].start_offset < highlights[i].end_offset
        /\ highlights[i].end_offset <= Len(content)

\* C12: rendering is deterministic, and the run sequence does not depend on
\* the order in which the store returned the highlights, here even for
\* highlights that all lie inside the content.
C12_RenderOrderIndependent ==
    (rendered /\ StoredInRange) =>
        \A hs \in Reorderings(highlights) : renderContent(content, hs) = elements

\* C12 as far as it holds: the same list renders the same runs, and so does
\* every reordering of a list whose start offsets are all different
C12_RenderDeterministic ==
    rendered =>
        /\ renderContent(content, highlights) = elements
        /\ (\A i, j \in DOMAIN highlights :
                highlights[i].start_offset = highlights[j].start_offset => i = j)
            => \A hs \in Reorderings(highlights) : renderContent(content, hs) = elements

\* Two highlights start at the same offset, and the one the store returned
\* first is the one that is rendered
C12_Witness ==
    /\ rendered
    /\ \E i, j \in DOMAIN highlights :
          /\ i < j
          /\ highlights[i].start_offset = highlights[j].start_offset
          /\ highlights[i].end_offset # highlights[j].end_offset
          /\ StoredInRange
          /\ \E r \in HighlightRuns(elements) : elements[r].key = highlights[i].id
          /\ \A r \in HighlightRuns(elements) : elements[r].key # highlights[j].id
          /\ \E hs \in Reorderings(highlights) :
                \E r \in HighlightRuns(renderContent(content, hs)) :
                    renderContent(content, hs)[r].key = highlights[j].id

-----------------------------------------------------------------------------
(* Claims about the word tokenizer *)

\* Every text of letters and whitespace up to n characters
RECURSIVE TextsUpTo(_)
TextsUpTo(n) ==
    IF n = 0 THEN {<<>>}
    ELSE TextsUpTo(n - 1)
         \cup {Append(t, ch) : t \in {u \in TextsUpTo(n - 1) : Len(u) = n - 1},
                               ch \in {"a", " "}}

\* The tokens of a run give the run back, each token is whitespace only or
\* free of whitespace as its tag says, and the two kinds alternate
TokensReproduce(text) ==
    LET toks == renderWords(text)
    IN  /\ ConcatTexts(toks) = text
        /\ \A i \in DOMAIN toks :
              /\ toks[i].text # <<>>
              /\ toks[i].kind \in {"space", "word"}
              /\ \A k \in DOMAIN toks[i].text :
                    IsSpace(toks[i].text[k]) <=> toks[i].kind = "space"
        /\ \A i \in DOMAIN toks : i > 1 => toks[i].kind # toks[i - 1].kind

-----------------------------------------------------------------------------
(* Claims about word clicks *)

IsPunctuation(ch) == ch = "."

\* A token with the punctuation characters taken off both ends only, then
\* trimmed
RECURSIVE StripLeadingPunctuation(_)
StripLeadingPunctuation(w) ==
    IF w # <<>> /\ IsPunctuation(Head(w)) THEN StripLeadingPunctuation(Tail(w)) ELSE w

RECURSIVE StripTrailingPunctuation(_)
StripTrailingPunctuation(w) ==
    IF w # <<>> /\ IsPunctuation(w[Len(w)])
    THEN StripTrailingPunctuation(SubSeq(w, 1, Len(w) - 1))
    ELSE w

StripBothEnds(w) == Trim(StripTrailingPunctuation(StripLeadingPunctuation(w)))

\* C14: the word reported for analysis is the clicked token with the
\* punctuation removed from both ends only; punctuation inside the token is
\* kept.
C14_PunctuationStrippedAtEndsOnly ==
    [][\A w \in Words, s \in SegmentIds :
          (handleWordClick(w, s) /\ selectedWord' # selectedWord)
              => selectedWord'.word = StripBothEnds(w)]_vars

\* What is reported: the token with every punctuation character removed
C14_PunctuationStrippedEverywhere ==
    [][\A w \in Words, s \in SegmentIds :
          (handleWordClick(w, s) /\ selectedWord' # selectedWord)
              => selectedWord'.word = SelectSeq(w, LAMBDA ch : ~IsPunctuation(ch))]_vars

\* A click on a token with punctuation inside it reported the word without it
C14_Witness ==
    /\ lastEvent.name = "wordClick"
    /\ selectedWord # None
    /\ \E w \in Words :
          /\ selectedWord.word = cleanWord(w)
          /\ selectedWord.word # StripBothEnds(w)

\* C15: a click on a token whose cleaned text is empty has no side effect:
\* the selected word, the pending tutor selection, the tutor request state
\* and the platform selection are left unchanged.
C15_EmptyWordClickNoEffect ==
    [][\A w \in Words, s \in SegmentIds :
          (cleanWord(w) = <<>> /\ handleWordClick(w, s))
              => UNCHANGED <<selectedWord, highlightSelection, requests,
                             currentMutation, platformSelection>>]_vars

\* What such a click does leave alone: the selected word and the requests
C15_EmptyWordClickKeepsWord ==
    [][\A w \in Words, s \in SegmentIds :
          (cleanWord(w) = <<>> /\ handleWordClick(w, s))
              => UNCHANGED <<selectedWord, requests>>]_vars

\* A click on a punctuation-only token took the controller out of
\* Requesting
C15_Witness ==
    /\ lastEvent.name = "wordClick"
    /\ lastEvent.from = "Requesting"
    /\ selectedWord = None
    /\ highlightSelection = None

-----------------------------------------------------------------------------
(* Claims about the tutor request *)

\* C16: a request is dispatched only by an ask taken while a selection is
\* pending; its payload carries the id and language of the loaded text and
\* the segment id, text and reference of the selection pending at that
\* moment; a selection event alone dispatches nothing.
C16_DispatchOnlyOnAsk ==
    /\ [][Len(requests') # Len(requests) =>
            /\ lastEvent'.name = "ask"
            /\ highlightSelection # None
            /\ Len(requests') = Len(requests) + 1
            /\ SubSeq(requests', 1, Len(requests)) = requests
            /\ LET sent == requests'[Len(requests')]
               IN  /\ sent.text_id = TextId
                   /\ sent.language = TextLanguage
                   /\ sent.segment_id = highlightSelection.segmentId
                   /\ sent.segment_id \in SegmentIds
                   /\ sent.selection = highlightSelection.selection
                   /\ sent.segment_reference = segmentReference(highlightSelection.segmentId)
                   /\ sent.state = "pending"]_vars
    /\ [][(handleTextHighlight \/ \E sel \in PlatformSelections : UserSelects(sel))
            => Len(requests') = Len(requests)]_vars

\* The ask button was pressed for a pending selection and its request is in
\* flight
C16_Witness ==
    /\ lastEvent.name = "ask"
    /\ lastEvent.from = "AwaitingAction"
    /\ ControllerState = "Requesting"
    /\ requests[currentMutation].selection = highlightSelection.selection

\* C17: an error for the current request takes the controller to Failed:
\* the pending selection is kept, the error's detail (its message when it
\* has none) is shown, the ask action is enabled again, the highlights and
\* the selected word are untouched; asking again re-enters Requesting for
\* the same selection.
C17_FailedKeepsSelectionAndRetries ==
    /\ [][\A i \in DOMAIN requests :
            (GatewayResponds(i, "error") /\ i = currentMutation)
                => /\ ControllerState' = "Failed"
                   /\ highlightSelection' = highlightSelection
                   /\ highlightSelection' # None
                   /\ popoverShown'
                   /\ tutorErrorMessage' \in {"Network Error", "tutor unavailable"}
                   /\ (requests'[i].error.detail = Absent
                         => tutorErrorMessage' = requests'[i].error.message)
                   /\ (requests'[i].error.detail # Absent
                         => tutorErrorMessage' = requests'[i].error.detail)
                   /\ askButtonEnabled'
                   /\ UNCHANGED <<selectedWord, highlights, elements>>]_vars
    /\ [][(ControllerState = "Failed" /\ handleAskTutor)
            => /\ ControllerState' = "Requesting"
               /\ highlightSelection' = highlightSelection
               /\ requests'[currentMutation'].selection = highlightSelection.selection
               /\ requests'[currentMutation'].segment_id = highlightSelection.segmentId]_vars

\* A request failed with a detail, the same selection was asked again and
\* its second request is in flight
C17_Witness ==
    /\ lastEvent.name = "ask"
    /\ lastEvent.from = "Failed"
    /\ ControllerState = "Requesting"
    /\ Len(requests) = 2
    /\ requests[1].state = "error"
    /\ requests[1].error.detail # Absent
    /\ requests[1].selection = requests[2].selection

-----------------------------------------------------------------------------
\* A write to the highlight store is dispatched, or is rejected by the store
WriteDispatchedOrRejected ==
    \/ createHighlight
    \/ \E id \in StoredIds, ok \in BOOLEAN : deleteHighlight(id, ok)
    \/ \E i \in DOMAIN submitted : createHighlightFails(i)
    \/ \E id \in deleting : deleteHighlightFails(id)

\* The store confirms a create or a delete and the list is fetched again
WriteConfirmed ==
    \/ \E i \in DOMAIN submitted : createHighlightSucceeds(i)
    \/ \E id \in deleting : deleteHighlightSucceeds(id)

-----------------------------------------------------------------------------
\* The selection cannot be mapped to a segment: it is collapsed, its text is
\* whitespace only, or neither end lies in a segment element
MappingFails(sel) ==
    \/ sel.isCollapsed
    \/ rawText(sel) = <<>>
    \/ segmentElement(sel) = NoSegment

\* C19: a selection event whose mapping fails changes nothing: the pending
\* selection and the tutor request state (suggestion, error, loading) are
\* after the event what they were before it.
C19_MappingFailureIsNoOp ==
    [][(handleTextHighlight /\ highlightGuard /\ MappingFails(platformSelection))
          => UNCHANGED <<highlightSelection, requests, currentMutation>>]_vars

\* What the handler keeps: a selection with text but no segment element
\* around either end changes nothing
C19_NoSegmentIsNoOp ==
    [][(/\ handleTextHighlight
        /\ highlightGuard
        /\ ~platformSelection.isCollapsed
        /\ rawText(platformSelection) # <<>>
        /\ segmentElement(platformSelection) = NoSegment)
          => UNCHANGED <<highlightSelection, requests, currentMutation,
                         platformSelection>>]_vars

\* A mouse-up over a collapsed or whitespace-only selection has just run
\* while a suggestion was shown, and the popover is gone
C19_Witness ==
    /\ lastEvent.name = "mouseup"
    /\ lastEvent.readSelection
    /\ lastEvent.cleared
    /\ lastEvent.from = "Resolved"
    /\ highlightSelection = None
    /\ currentMutation = NoMutation

\* The anchor and the focus of the selection lie in two different segments
CrossesSegments(sel) ==
    /\ ~sel.isCollapsed
    /\ sel.anchorSeg \in SegmentIds
    /\ sel.focusSeg \in SegmentIds
    /\ sel.anchorSeg # sel.focusSeg

\* C20: a selection event over a selection that crosses two segments never
\* creates a pending selection.
C20_CrossSegmentNeverPending ==
    [][(/\ handleTextHighlight
        /\ CrossesSegments(platformSelection)
        /\ highlightSelection = None)
          => highlightSelection' = None]_vars

\* What the handler does with it: the selection is attributed to the
\* segment of its anchor
C20_CrossSegmentGoesToAnchor ==
    [][(/\ handleTextHighlight
        /\ highlightGuard
        /\ CrossesSegments(platformSelection)
        /\ rawText(platformSelection) # <<>>)
          => /\ highlightSelection' # None
             /\ highlightSelection'.segmentId = platformSelection.anchorSeg]_vars

\* A selection that crosses two segments is pending, attributed to the
\* segment of its anchor
C20_Witness ==
    /\ lastEvent.name = "mouseup"
    /\ lastEvent.readSelection
    /\ CrossesSegments(platformSelection)
    /\ highlightSelection # None
    /\ highlightSelection.segmentId = platformSelection.anchorSeg

-----------------------------------------------------------------------------
\* The controller leaves a state with a pending selection for Idle
BecomesIdle == highlightSelection # None /\ highlightSelection' = None

\* C21: every transition of the controller to Idle also collapses the
\* platform's live selection: after it the platform selection holds no range.
C21_IdleCollapsesPlatformSelection ==
    [][BecomesIdle => platformSelection' = NoRanges]_vars

\* What the code keeps: every transition to Idle other than the one made by
\* the feature-flag effect removes the platform's ranges
C21_ClearCollapsesPlatformSelection ==
    [][(BecomesIdle /\ ~FlagChange) => platformSelection' = NoRanges]_vars

\* The flag has just been disabled while a selection was pending: the
\* controller is Idle and the platform selection still holds its range
C21_Witness ==
    /\ lastEvent.name = "flag"
    /\ lastEvent.from # "Idle"
    /\ ~tutorFeatureEnabled
    /\ highlightSelection = None
    /\ platformSelection.rangeCount = 1
    /\ ~platformSelection.isCollapsed

-----------------------------------------------------------------------------
\* C22: in every reachable state the tutor popover is shown exactly when the
\* feature flag is enabled and a pending selection is held; and when no
\* pending selection is held the controller holds no tutor suggestion, no
\* tutor error and no loading state.
C22_PopoverIffPendingIdleHoldsNothing ==
    /\ popoverShown <=> (tutorFeatureEnabled /\ highlightSelection # None)
    /\ highlightSelection = None =>
          /\ tutorSuggestion = NoMutation
          /\ tutorError = NoMutation
          /\ ~isTutorPending

\* The flag was disabled while a suggestion was shown: the controller is
\* Idle, the answered request is still in the log, and nothing of it is held
C22_Witness ==
    /\ lastEvent.name = "flag"
    /\ lastEvent.from = "Resolved"
    /\ highlightSelection = None
    /\ ~popoverShown
    /\ \E i \in DOMAIN requests : requests[i].state = "success"

-----------------------------------------------------------------------------
-----------------------------------------------------------------------------
Requesting == ControllerState = "Requesting"

\* C24 as stated: with a gateway that answers every request, a controller in
\* Requesting eventually reaches Resolved, Failed or Idle.
C24_RequestingReachesResolvedFailedIdle ==
    Requesting ~> (ControllerState \in {"Resolved", "Failed", "Idle"})

\* C24: with a gateway that answers every request, a controller in
\* Requesting eventually reaches Resolved, Failed or Idle, or AwaitingAction
\* by a new selection that supersedes the one asked about; the observer is
\* pending only in Requesting; and close, scroll and a selection event stay
\* enabled while it waits.
C24_RequestingEventuallyLeft ==
    /\ Requesting ~>
          (ControllerState \in {"Resolved", "Failed", "Idle", "AwaitingAction"})
    /\ [](isTutorPending => Requesting)
    /\ [](Requesting =>
             /\ ENABLED (PopoverClose /\ UNCHANGED notCtlVars)
             /\ ENABLED (handleScroll /\ UNCHANGED notCtlVars)
             /\ ENABLED (handleTextHighlight /\ UNCHANGED notCtlVars))

\* A new selection was accepted while a request was awaited: the controller
\* went from Requesting to AwaitingAction and the request is still pending
C24_Witness ==
    /\ lastEvent.name = "mouseup"
    /\ lastEvent.from = "Requesting"
    /\ ControllerState = "AwaitingAction"
    /\ \E i \in DOMAIN requests : requests[i].state = "pending"

-----------------------------------------------------------------------------
\* C25: whenever a word is selected, the panel settles (its render is
\* committed) with the morphology tab active and the panel expanded; and a
\* render pass that runs while a word is selected leaves the morphology tab
\* active and the panel expanded, whatever the user had switched to.
C25_SelectedWordForcesMorphologyExpanded ==
    /\ []((toolsCommitted /\ selectedWord # None) =>
             (activeTab = "morphology" /\ ~panelCollapsed))
    /\ [][(ToolsPanelRender /\ selectedWord # None) =>
             (activeTab' = "morphology" /\ ~panelCollapsed')]_vars

\* A word is selected and the user has just switched to the notes tab, or
\* collapsed the panel; the render that reverts it has not run yet
C25_Witness ==
    /\ selectedWord # None
    /\ ~toolsCommitted
    /\ (activeTab = "notes" \/ panelCollapsed)

-----------------------------------------------------------------------------
\* The lifecycle's transitions: Requesting is entered from AwaitingAction or
\* (retry) from Failed; Resolved and Failed from Requesting; AwaitingAction
\* by a selection, and Idle by a clear, from any state
LifecycleStep(from, to) ==
    CASE to = "Requesting" -> from \in {"AwaitingAction", "Failed"}
      [] to \in {"Resolved", "Failed"} -> from = "Requesting"
      [] OTHER -> TRUE

-----------------------------------------------------------------------------
\* C27: one click on a highlighted run is handled as a deletion request or
\* as a word click, never as both.
C27_ClickDeletesOrAnalyses ==
    ~(lastClick.asked /\ lastClick.word # <<>>)

\* What the code keeps: a click that lands on whitespace or on the padding
\* of a highlighted run, or that ends a text selection, is a deletion
\* request only
C27_OnlyWordClicksReachBoth ==
    (lastClick.asked /\ lastClick.word # <<>>) =>
        (lastClick.token > 0 /\ ~lastClick.selecting)

\* A click on a word inside a highlighted run has called onWordClick for
\* the word and asked to remove the highlight
C27_Witness ==
    /\ lastClick.run > 0
    /\ lastClick.token > 0
    /\ lastClick.asked
    /\ lastClick.word # <<>>

-----------------------------------------------------------------------------
\* C28: a click on a word token calls onWordClick only when the platform
\* selection's text is empty at the click; the click that ends a non-empty
\* text selection over a word calls nothing.
C28_WordClickOnlyWithoutSelection ==
    /\ lastClick.word # <<>> => ~lastClick.selecting
    /\ lastClick.selecting => lastClick.word = <<>>

\* The mouse-up of a text selection stored a pending selection, and the
\* click that followed it on a word token called no word analysis
C28_Witness ==
    /\ selection # None
    /\ lastClick.selecting
    /\ lastClick.word = <<>>
    /\ lastClick.run \in DOMAIN elements
    /\ lastClick.token \in DOMAIN renderWords(elements[lastClick.run].text)
    /\ renderWords(elements[lastClick.run].text)[lastClick.token].kind = "word"

-----------------------------------------------------------------------------
\* C29: choosing a colour submits exactly the pending selection's start, end
\* and text and keeps the selection pending; a confirmed create clears the
\* pending selection and removes the platform's ranges; a rejected create
\* leaves the pending selection and the platform's ranges as they were; and
\* without a pending selection nothing is sent to the store.
C29_CreateSubmitsSelectionAndSettles ==
    /\ [][createHighlight =>
             /\ submitted' = Append(submitted,
                   [start_offset |-> selection.start, end_offset |-> selection.end,
                    selected_text |-> selection.text])
             /\ UNCHANGED selection]_vars
    /\ [][\A i \in DOMAIN submitted :
             createHighlightSucceeds(i) => (selection' = None /\ domRange' = None)]_vars
    /\ [][\A i \in DOMAIN submitted :
             createHighlightFails(i) => UNCHANGED <<selection, domRange>>]_vars
    /\ [](mutationFn(None) = <<>>)

\* A create is in flight that carries the selection still pending
C29_Witness ==
    /\ selection # None
    /\ \E i \in DOMAIN submitted :
          /\ submitted[i].start_offset = selection.start
          /\ submitted[i].end_offset = selection.end
          /\ submitted[i].selected_text = selection.text

-----------------------------------------------------------------------------
=============================================================================
